---- MODULE Spec2Model ----
(***************************************************************************)
(* Model of the checkpoint store of Redshift-ResNet:                       *)
(*   src/preprocessing/sdss/checkpoint_objects.py  (class CheckPointer)    *)
(*   src/preprocessing/sdss/sdss_utils.py          (get_hash)              *)
(*                                                                         *)
(* A Python str is a sequence of one-character strings, so that ''.join,   *)
(* ','.join and str.split(',') are computed character by character.        *)
(* A Python dict is a sequence of entries in insertion order.              *)
(***************************************************************************)
EXTENDS Integers, Sequences, FiniteSets, TLC

(***************************************************************************)
(* Bounds of the model.                                                    *)
(***************************************************************************)
\* longest list of candidates handed to one save_objects call
MaxBatch == 2
\* last reading of the wall clock; no action reads the clock beyond it
MaxTime == 4

\* the CheckPointer instances bound to the one identity (guid)
Insts == {1, 2}

\* keys of checkpoint objects: "a", "b" and "ab" ("a" + "b" = "ab")
Keys == {<<"a">>, <<"b">>, <<"a", "b">>}
\* the max_objects every instance is constructed with: the longest list
\* that is still saved
MaxObjects == MaxBatch

(***************************************************************************)
(* RedShiftCheckPointObject: a key and a payload.  A candidate of a        *)
(* save_objects call is an instance of the metaclass, a dict of its        *)
(* fields, or an object of some other type.                                *)
(***************************************************************************)
RedShiftCheckPointObject(k, p) == [key |-> k, payload |-> p]

NoObject == [key |-> <<>>, payload |-> 0]

\* what callers pass: "a" with either payload and "ab" as instances, "b" as
\* a dict of its fields, and one object of another type
Candidates ==
    {[kind |-> "instance", key |-> <<"a">>, payload |-> 1],
     [kind |-> "instance", key |-> <<"a">>, payload |-> 2],
     [kind |-> "dict", key |-> <<"b">>, payload |-> 1],
     [kind |-> "instance", key |-> <<"a", "b">>, payload |-> 1],
     [kind |-> "other", key |-> <<>>, payload |-> 0]}

RECURSIVE SeqsUpTo(_, _)
SeqsUpTo(S, n) ==
    IF n = 0 THEN {<<>>}
    ELSE LET shorter == SeqsUpTo(S, n - 1)
         IN  shorter \cup {Append(s, x) : s \in {t \in shorter : Len(t) = n - 1}, x \in S}

\* the lists of candidates a caller passes: every list of up to MaxBatch
\* candidates, and the lists of MaxBatch + 1 copies of one candidate
Batches ==
    SeqsUpTo(Candidates, MaxBatch)
    \cup {[i \in 1..(MaxBatch + 1) |-> c] : c \in Candidates}

(***************************************************************************)
(* Strings.                                                                *)
(***************************************************************************)
\* ''.join(iterable)
RECURSIVE Join(_)
Join(strs) ==
    IF strs = <<>> THEN <<>> ELSE Head(strs) \o Join(Tail(strs))

\* ','.join(iterable)
RECURSIVE CommaJoin(_)
CommaJoin(strs) ==
    IF strs = <<>> THEN <<>>
    ELSE IF Len(strs) = 1 THEN Head(strs)
    ELSE Head(strs) \o <<",">> \o CommaJoin(Tail(strs))

\* text.split(','): the pieces between commas; '' splits to ['']
RECURSIVE SplitFrom(_, _, _)
SplitFrom(text, i, piece) ==
    IF i > Len(text) THEN <<piece>>
    ELSE IF text[i] = "," THEN <<piece>> \o SplitFrom(text, i + 1, <<>>)
    ELSE SplitFrom(text, i + 1, Append(piece, text[i]))

Split(text) == SplitFrom(text, 1, <<>>)

Range(s) == {s[i] : i \in 1..Len(s)}

\* sha1(...).hexdigest(): the digest stands for the bytes it was computed
\* from (no two byte strings of the model share a digest)
Sha1Hex(bytes) == <<"sha1:">> \o bytes

\* get_hash(iterable)
get_hash(iterable) == Sha1Hex(Join(iterable))

(***************************************************************************)
(* dict, in insertion order: a sequence of [k, v] entries, keys distinct.  *)
(***************************************************************************)
DictKeys(d) == [i \in 1..Len(d) |-> d[i].k]

DictHas(d, key) == \E i \in 1..Len(d) : d[i].k = key

DictGet(d, key) == d[CHOOSE i \in 1..Len(d) : d[i].k = key].v

\* d[key] = value: replaces the value in place, or appends a new entry
DictSet_KeepFirst(d, key, value) ==
    IF DictHas(d, key) THEN d ELSE Append(d, [k |-> key, v |-> value])

DictSet(d, key, value) ==
    IF DictHas(d, key)
    THEN [i \in 1..Len(d) |-> IF d[i].k = key THEN [k |-> key, v |-> value] ELSE d[i]]
    ELSE Append(d, [k |-> key, v |-> value])

(***************************************************************************)
(* State.                                                                  *)
(***************************************************************************)
VARIABLES
    blobs,          \* <guid>/<hash>.pkl files: file name -> pickled dict
    metadata,       \* <guid>/metadata.json: [exists, doc]
    ledger,         \* <guid>.txt (objs_in_disk): [exists, text, mtime]
    now,            \* the wall clock
    alive,          \* alive[i]: the constructor of instance i has returned
    obj_set,        \* self.obj_set
    last_modified,  \* self.last_modified
    max_objects,    \* self.max_objects
    pc,             \* position of instance i inside a save_objects call
    frame,          \* locals of that call
    ret,            \* the last call: what was asked and how it ended
    saved,          \* key -> the object a save accepted for it
    n_accepting     \* save calls since the overwrite that accepted a key

disk == <<blobs, metadata, ledger>>
memory == <<alive, obj_set, last_modified, max_objects>>
vars == <<blobs, metadata, ledger, now, alive, obj_set, last_modified,
          max_objects, pc, frame, ret, saved, n_accepting>>

NoBlobs == [name \in {} |-> <<>>]
NoMetadata == [exists |-> FALSE, doc |-> <<>>]
NoLedger == [exists |-> FALSE, text |-> <<>>, mtime |-> 0]
NoFrame == [keys_to_save |-> <<>>, objects_to_save |-> <<>>,
            filename |-> <<>>, metadata |-> <<>>]

(***************************************************************************)
(* save_objects, stage by stage.  Each stage is a function of what it      *)
(* reads; the actions below apply the stages in the order of the code.     *)
(***************************************************************************)
\* line 110: len(meta_objects) > self.max_objects
Oversized_AtCap(meta_objects, maxobj) == Len(meta_objects) >= maxobj

Oversized(meta_objects, maxobj) == Len(meta_objects) > maxobj

\* lines 116-117: a dict is turned into an instance of the metaclass
Instantiate(obj_or_kwargs) ==
    IF obj_or_kwargs.kind = "dict"
    THEN [obj_or_kwargs EXCEPT !.kind = "instance"]
    ELSE obj_or_kwargs

\* line 119: isinstance(current_object, self.metaclass)
IsInstance_Anything(current_object) == TRUE

IsInstance(current_object) == current_object.kind = "instance"

\* line 122: current_object.key not in self.obj_set
NotInObjSet_AlwaysNew(key, objset) == TRUE

NotInObjSet(key, objset) == key \notin objset

\* lines 113-127: the loop over the candidates, from candidate i on
RECURSIVE ScanFrom(_, _, _, _)
ScanFrom(meta_objects, i, objset, st) ==
    IF i > Len(meta_objects) THEN st
    ELSE LET current_object == Instantiate(meta_objects[i])
             key == current_object.key
             obj == RedShiftCheckPointObject(key, current_object.payload)
         IN  IF ~IsInstance(current_object)
             THEN [st EXCEPT !.err = "TypeError"]
             ELSE IF NotInObjSet(key, objset)
             THEN ScanFrom(meta_objects, i + 1, objset,
                      [st EXCEPT !.objects_to_save = DictSet(@, key, obj),
                                 !.keys_to_save = Append(@, key)])
             ELSE ScanFrom(meta_objects, i + 1, objset, st)

\* lines 107-127: what the call has decided when it reaches line 129
Scan(meta_objects, objset, maxobj) ==
    LET start == [err |-> "none", keys_to_save |-> <<>>, objects_to_save |-> <<>>]
    IN  IF Oversized(meta_objects, maxobj)
        THEN [start EXCEPT !.err = "ValueError"]
        ELSE ScanFrom(meta_objects, 1, objset, start)

\* line 138: the name of the pickle file
Filename(objects_to_save) == get_hash(DictKeys(objects_to_save)) \o <<".pkl">>

\* lines 139-140: open(filename, 'wb'), pickle.dump
PickleDump_Nothing(bl, filename, objects_to_save) == bl

PickleDump(bl, filename, objects_to_save) ==
    [name \in DOMAIN bl \cup {filename} |->
        IF name = filename THEN objects_to_save ELSE bl[name]]

\* lines 142-146: the index as read from metadata.json, {} without the file
JsonLoad(md) == IF md.exists THEN md.doc ELSE <<>>

\* lines 148-151: metadata[filename] = keys, written back in full
JsonDump_Nothing(doc, filename, objects_to_save) == [exists |-> TRUE, doc |-> doc]

JsonDump(doc, filename, objects_to_save) ==
    [exists |-> TRUE, doc |-> DictSet(doc, filename, DictKeys(objects_to_save))]

\* lines 155-157: open('a+'), write(','.join(keys_to_save)), write(',')
AppendKeys(lg, keys_to_save, t) ==
    [exists |-> TRUE,
     text |-> lg.text \o CommaJoin(keys_to_save) \o <<",">>,
     mtime |-> t]

\* line 159: self.obj_set.update(set(keys_to_save))
UpdateObjSet(objset, keys_to_save) == objset \cup Range(keys_to_save)

\* time.time(): every reading is later than the one before
TimeTime(t) == t + 1

\* line 132: the watermark after a save that wrote something
Watermark_Kept(lastmod, t) == lastmod

Watermark(lastmod, t) == TimeTime(t)

\* lines 107-134 as one function of the instance w and the files
save_objects(w, meta_objects) ==
    LET st == Scan(meta_objects.objs, w.obj_set, w.max_objects)
        filename == Filename(st.objects_to_save)
        unchanged == [w EXCEPT !.err = "none", !.keys_to_save = <<>>]
    IN  IF ~meta_objects.given THEN unchanged
        ELSE IF st.err # "none"
        THEN [unchanged EXCEPT !.err = st.err, !.keys_to_save = st.keys_to_save]
        ELSE IF Len(st.objects_to_save) > 0
        THEN [w EXCEPT
                !.err = "none",
                !.keys_to_save = st.keys_to_save,
                !.blobs = PickleDump(w.blobs, filename, st.objects_to_save),
                !.metadata = JsonDump(JsonLoad(w.metadata), filename, st.objects_to_save),
                !.ledger = AppendKeys(w.ledger, st.keys_to_save, w.now),
                !.obj_set = UpdateObjSet(w.obj_set, st.keys_to_save),
                !.last_modified = Watermark(w.last_modified, w.now),
                !.now = TimeTime(w.now)]
        ELSE unchanged

\* instance i and the files, as save_objects and __init__ see them
World(i) ==
    [blobs |-> blobs, metadata |-> metadata, ledger |-> ledger, now |-> now,
     obj_set |-> obj_set[i], last_modified |-> last_modified[i],
     max_objects |-> max_objects[i], err |-> "none", keys_to_save |-> <<>>]

(***************************************************************************)
(* The read operations.                                                    *)
(***************************************************************************)
\* lines 186-189: the file of the last index entry that lists obj_key
TargetFile(meta_dict, obj_key) ==
    LET hits == {i \in 1..Len(meta_dict) : obj_key \in Range(meta_dict[i].v)}
    IN  IF hits = {} THEN <<>>
        ELSE meta_dict[CHOOSE i \in hits : \A j \in hits : j <= i].k

\* line 191: tgt_file is None
NotFound_Never(tgt_file) == FALSE

NotFound(tgt_file) == tgt_file = <<>>

\* lines 179-196
get_specific_object(md, bl, obj_key) ==
    LET tgt_file == TargetFile(md.doc, obj_key)
        missing == [err |-> "KeyError", obj |-> NoObject]
    IN  IF ~md.exists THEN missing
        ELSE IF NotFound(tgt_file) THEN missing
        ELSE IF tgt_file \notin DOMAIN bl
        THEN [err |-> "FileNotFoundError", obj |-> NoObject]
        ELSE IF ~DictHas(bl[tgt_file], obj_key) THEN missing
        ELSE [err |-> "none", obj |-> DictGet(bl[tgt_file], obj_key)]

\* lines 200-204
return_all_objects_info(md) == IF ~md.exists THEN <<>> ELSE md.doc

\* lines 208-214
return_objects_for_Empty(bl, checkpoint_file) == [err |-> "none", objects |-> <<>>]

return_objects_for(bl, checkpoint_file) ==
    IF checkpoint_file \notin DOMAIN bl
    THEN [err |-> "FileNotFoundError", objects |-> <<>>]
    ELSE [err |-> "none", objects |-> bl[checkpoint_file]]

(***************************************************************************)
(* The constructor.                                                        *)
(***************************************************************************)
\* line 79: shutil.rmtree(self.pkl_dir): the blobs and metadata.json go
RmtreeBlobs_Kept(bl) == bl

RmtreeBlobs(bl) == NoBlobs

RmtreeMetadata(md) == NoMetadata

\* lines 80-81: os.remove(self.objs_in_disk)
RemoveLedger_Kept(lg) == lg

RemoveLedger(lg) == NoLedger

\* lines 85-91: the ledger as loaded from <guid>.txt
LoadObjSet(lg) == IF lg.exists THEN Range(Split(lg.text)) ELSE {}

\* lines 77-97 as one function of the files and the clock
init(bl, md, lg, t, overwrite, meta_objects, maxobj) ==
    LET bl1 == IF overwrite THEN RmtreeBlobs(bl) ELSE bl
        md1 == IF overwrite THEN RmtreeMetadata(md) ELSE md
        lg1 == IF overwrite /\ lg.exists THEN RemoveLedger(lg) ELSE lg
        w == [blobs |-> bl1, metadata |-> md1, ledger |-> lg1,
              now |-> IF lg1.exists THEN t ELSE TimeTime(t),
              obj_set |-> LoadObjSet(lg1),
              last_modified |-> IF lg1.exists THEN lg1.mtime ELSE TimeTime(t),
              max_objects |-> maxobj, err |-> "none", keys_to_save |-> <<>>]
    IN  save_objects(w, meta_objects)

(***************************************************************************)
(* What callers pass.                                                      *)
(***************************************************************************)
\* meta_objects=None
NoBatch == [given |-> FALSE, objs |-> <<>>]

MetaObjects == {NoBatch} \cup {[given |-> TRUE, objs |-> b] : b \in Batches}

\* the initial batches handed to the constructor: none, the empty list, one
\* candidate, or an oversized list
InitialObjects ==
    {mo \in MetaObjects : Len(mo.objs) <= 1 \/ Len(mo.objs) > MaxBatch}

\* a key no save is ever given
UnknownKey == <<"z">>

\* a file name no save ever writes
UnknownFile == <<"sha1:", "z", ".pkl">>

(***************************************************************************)
(* Bookkeeping of the calls, for the properties below.  ret is the call    *)
(* that has just ended: what it was given and how it ended; the caller     *)
(* looks at it (Resume) before the next call; before is the set of keys    *)
(* saved and was the watermark when the call began, err is "running" until *)
(* the call returns, inst is the instance called.  saved maps each key to *)
(* the object a save                                                       *)
(* stored for it since the last overwrite.                                 *)
(***************************************************************************)
NoRet ==
    [op |-> "none", inst |-> 0, err |-> "none", overwrite |-> FALSE, given |-> FALSE,
     objs |-> <<>>, before |-> {}, was |-> 0, keys_to_save |-> <<>>,
     key |-> <<>>, obj |-> NoObject]

Asked(op, meta_objects) ==
    [NoRet EXCEPT !.op = op, !.given = meta_objects.given, !.objs = meta_objects.objs]

Stored(sv, objects_to_save) ==
    [k \in DOMAIN sv \cup Range(DictKeys(objects_to_save)) |->
        IF DictHas(objects_to_save, k) THEN DictGet(objects_to_save, k) ELSE sv[k]]

NoneSaved == [k \in {} |-> NoObject]

(***************************************************************************)
(* Actions: one per operation of CheckPointer, each the whole call.        *)
(***************************************************************************)
Init ==
    /\ blobs = NoBlobs
    /\ metadata = NoMetadata
    /\ ledger = NoLedger
    /\ now = 0
    /\ alive = [i \in Insts |-> FALSE]
    /\ obj_set = [i \in Insts |-> {}]
    /\ last_modified = [i \in Insts |-> 0]
    /\ max_objects = [i \in Insts |-> 0]
    /\ pc = [i \in Insts |-> "idle"]
    /\ frame = [i \in Insts |-> NoFrame]
    /\ ret = NoRet
    /\ saved = NoneSaved
    /\ n_accepting = 0

\* CheckPointer(ckpt_dir, guid, metaclass, overwrite, meta_objects, max_objects)
\* If the constructor raises, the caller gets no instance.
Construct(self, overwrite, meta_objects, maxobj) ==
    LET r == init(blobs, metadata, ledger, now, overwrite, meta_objects, maxobj)
        loaded == LoadObjSet(IF overwrite THEN NoLedger ELSE ledger)
        st == Scan(meta_objects.objs, loaded, maxobj)
        wrote == r.err = "none" /\ r.keys_to_save # <<>>
        before == IF overwrite THEN NoneSaved ELSE saved
    IN  /\ ret = NoRet
        /\ pc[self] = "idle"
        /\ r.now <= MaxTime
        /\ blobs' = r.blobs
        /\ metadata' = r.metadata
        /\ ledger' = r.ledger
        /\ now' = r.now
        /\ alive' = [alive EXCEPT ![self] = r.err = "none"]
        /\ obj_set' = [obj_set EXCEPT ![self] = IF r.err = "none" THEN r.obj_set ELSE {}]
        /\ last_modified' =
              [last_modified EXCEPT ![self] = IF r.err = "none" THEN r.last_modified ELSE 0]
        /\ max_objects' = [max_objects EXCEPT ![self] = IF r.err = "none" THEN maxobj ELSE 0]
        /\ ret' = [Asked("init", meta_objects) EXCEPT
                      !.err = r.err, !.keys_to_save = r.keys_to_save,
                      !.overwrite = overwrite, !.before = DOMAIN saved,
                      !.inst = self]
        /\ saved' = IF wrote THEN Stored(before, st.objects_to_save) ELSE before
        /\ n_accepting' = (IF overwrite THEN 0 ELSE n_accepting) + (IF wrote THEN 1 ELSE 0)
        /\ UNCHANGED <<pc, frame>>

\* self.save_objects(meta_objects)
SaveObjects(self, meta_objects) ==
    LET r == save_objects(World(self), meta_objects)
        st == Scan(meta_objects.objs, obj_set[self], max_objects[self])
        wrote == r.err = "none" /\ r.keys_to_save # <<>>
    IN  /\ ret = NoRet
        /\ alive[self]
        /\ pc[self] = "idle"
        /\ r.now <= MaxTime
        /\ blobs' = r.blobs
        /\ metadata' = r.metadata
        /\ ledger' = r.ledger
        /\ now' = r.now
        /\ obj_set' = [obj_set EXCEPT ![self] = r.obj_set]
        /\ last_modified' = [last_modified EXCEPT ![self] = r.last_modified]
        /\ ret' = [Asked("save", meta_objects) EXCEPT
                      !.err = r.err, !.keys_to_save = r.keys_to_save,
                      !.before = DOMAIN saved, !.was = last_modified[self],
                      !.inst = self]
        /\ saved' = IF wrote THEN Stored(saved, st.objects_to_save) ELSE saved
        /\ n_accepting' = n_accepting + (IF wrote THEN 1 ELSE 0)
        /\ UNCHANGED <<alive, max_objects, pc, frame>>

\* self.get_specific_object(obj_key)
GetSpecificObject(self, obj_key) ==
    LET r == get_specific_object(metadata, blobs, obj_key)
    IN  /\ ret = NoRet
        /\ alive[self]
        /\ pc[self] = "idle"
        /\ ret' = [NoRet EXCEPT !.op = "get", !.inst = self, !.err = r.err,
                                !.key = obj_key, !.obj = r.obj]
        /\ UNCHANGED <<disk, memory, now, pc, frame, saved, n_accepting>>

\* self.return_all_objects_info()
ReturnAllObjectsInfo(self) ==
    /\ ret = NoRet
    /\ alive[self]
    /\ pc[self] = "idle"
    /\ ret' = [NoRet EXCEPT !.op = "info"]
    /\ UNCHANGED <<disk, memory, now, pc, frame, saved, n_accepting>>

\* self.return_objects_for(checkpoint_file)
ReturnObjectsFor(self, checkpoint_file) ==
    LET r == return_objects_for(blobs, checkpoint_file)
    IN  /\ ret = NoRet
        /\ alive[self]
        /\ pc[self] = "idle"
        /\ ret' = [NoRet EXCEPT !.op = "objects_for", !.err = r.err,
                                !.key = checkpoint_file]
        /\ UNCHANGED <<disk, memory, now, pc, frame, saved, n_accepting>>

(***************************************************************************)
(* save_objects one statement at a time: the call stops between its file   *)
(* operations, which is where another process or a crash can come in.      *)
(***************************************************************************)
\* lines 107-129: the call up to the decision to write
StartSave(self, meta_objects) ==
    LET st == Scan(meta_objects.objs, obj_set[self], max_objects[self])
        writes == meta_objects.given /\ st.err = "none" /\ Len(st.objects_to_save) > 0
    IN  /\ ret = NoRet
        /\ alive[self]
        /\ pc[self] = "idle"
        /\ writes => TimeTime(now) <= MaxTime
        /\ pc' = [pc EXCEPT ![self] = IF writes THEN "dump" ELSE "idle"]
        /\ frame' = [frame EXCEPT ![self] =
                        IF writes
                        THEN [NoFrame EXCEPT !.keys_to_save = st.keys_to_save,
                                             !.objects_to_save = st.objects_to_save,
                                             !.filename = Filename(st.objects_to_save)]
                        ELSE NoFrame]
        /\ ret' = [Asked("save", meta_objects) EXCEPT
                      !.err = IF writes THEN "running"
                              ELSE IF meta_objects.given THEN st.err ELSE "none",
                      !.keys_to_save = IF meta_objects.given THEN st.keys_to_save ELSE <<>>,
                      !.before = DOMAIN saved, !.was = last_modified[self],
                      !.inst = self]
        /\ UNCHANGED <<disk, memory, now, saved, n_accepting>>

\* lines 138-140
DumpPkl(self) ==
    /\ pc[self] = "dump"
    /\ blobs' = PickleDump(blobs, frame[self].filename, frame[self].objects_to_save)
    /\ pc' = [pc EXCEPT ![self] = "load"]
    /\ UNCHANGED <<metadata, ledger, memory, now, frame, ret, saved, n_accepting>>

\* lines 142-146
LoadMetadata(self) ==
    /\ pc[self] = "load"
    /\ frame' = [frame EXCEPT ![self].metadata = JsonLoad(metadata)]
    /\ pc' = [pc EXCEPT ![self] = "write"]
    /\ UNCHANGED <<disk, memory, now, ret, saved, n_accepting>>

\* lines 148-151
WriteMetadata(self) ==
    /\ pc[self] = "write"
    /\ metadata' = JsonDump(frame[self].metadata, frame[self].filename,
                            frame[self].objects_to_save)
    /\ pc' = [pc EXCEPT ![self] = "append"]
    /\ UNCHANGED <<blobs, ledger, memory, now, frame, ret, saved, n_accepting>>

\* lines 155-157
AppendLedger(self) ==
    /\ pc[self] = "append"
    /\ ledger' = AppendKeys(ledger, frame[self].keys_to_save, now)
    /\ pc' = [pc EXCEPT ![self] = "update"]
    /\ UNCHANGED <<blobs, metadata, memory, now, frame, ret, saved, n_accepting>>

\* line 159
UpdateLedgerSet(self) ==
    /\ pc[self] = "update"
    /\ obj_set' = [obj_set EXCEPT ![self] = UpdateObjSet(@, frame[self].keys_to_save)]
    /\ pc' = [pc EXCEPT ![self] = "stamp"]
    /\ UNCHANGED <<disk, alive, last_modified, max_objects, now, frame, ret,
                   saved, n_accepting>>

\* lines 132-134: the watermark, and the call returns
StampAndReturn(self) ==
    /\ pc[self] = "stamp"
    /\ last_modified' = [last_modified EXCEPT ![self] = Watermark(@, now)]
    /\ now' = TimeTime(now)
    /\ pc' = [pc EXCEPT ![self] = "idle"]
    /\ frame' = [frame EXCEPT ![self] = NoFrame]
    /\ ret' = [ret EXCEPT !.err = "none"]
    /\ saved' = Stored(saved, frame[self].objects_to_save)
    /\ n_accepting' = n_accepting + 1
    /\ UNCHANGED <<disk, alive, obj_set, max_objects>>

\* the caller has seen how its call ended and goes on
Resume ==
    /\ ret # NoRet
    /\ ret.err # "running"
    /\ ret' = NoRet
    /\ UNCHANGED <<disk, memory, now, pc, frame, saved, n_accepting>>

(***************************************************************************)
(* Spec: one writer.  The identity is taken over with overwrite=True, and  *)
(* one instance at a time saves and reads.                                 *)
(***************************************************************************)
Writer == 1

Next ==
    \/ \E mo \in InitialObjects : Construct(Writer, TRUE, mo, MaxObjects)
    \/ \E mo \in MetaObjects : SaveObjects(Writer, mo)
    \/ \E k \in Keys \cup {UnknownKey} : GetSpecificObject(Writer, k)
    \/ ReturnAllObjectsInfo(Writer)
    \/ \E f \in DOMAIN blobs \cup {UnknownFile} : ReturnObjectsFor(Writer, f)
    \/ Resume

Spec == Init /\ [][Next]_vars

(***************************************************************************)
(* SpecSteps: the same writer, with save_objects taken one statement at a  *)
(* time.                                                                   *)
(***************************************************************************)
NextSteps ==
    \/ \E mo \in InitialObjects : Construct(Writer, TRUE, mo, MaxObjects)
    \/ \E mo \in MetaObjects : StartSave(Writer, mo)
    \/ DumpPkl(Writer)
    \/ LoadMetadata(Writer)
    \/ WriteMetadata(Writer)
    \/ AppendLedger(Writer)
    \/ UpdateLedgerSet(Writer)
    \/ StampAndReturn(Writer)
    \/ \E k \in Keys \cup {UnknownKey} : GetSpecificObject(Writer, k)
    \/ Resume

SpecSteps == Init /\ [][NextSteps]_vars


(***************************************************************************)
(* SpecReload: one writer that also comes back to the identity with        *)
(* overwrite=False, as a process does when it is started again.  One of    *)
(* its keys holds a comma, the separator of the ledger file.               *)
(***************************************************************************)
ReloadCandidates ==
    {[kind |-> "instance", key |-> <<"a">>, payload |-> 1],
     [kind |-> "instance", key |-> <<"a", ",", "b">>, payload |-> 1]}

ReloadObjects ==
    {NoBatch} \cup {[given |-> TRUE, objs |-> b] : b \in SeqsUpTo(ReloadCandidates, MaxBatch)}

ReloadKeys == {c.key : c \in ReloadCandidates} \cup {<<"b">>, <<>>}

NextReload ==
    \/ Construct(Writer, TRUE, NoBatch, MaxObjects)
    \/ \E mo \in {m \in ReloadObjects : Len(m.objs) <= 1} :
          Construct(Writer, FALSE, mo, MaxObjects)
    \/ \E mo \in ReloadObjects : SaveObjects(Writer, mo)
    \/ \E k \in ReloadKeys : GetSpecificObject(Writer, k)
    \/ ReturnAllObjectsInfo(Writer)
    \/ Resume

SpecReload == Init /\ [][NextReload]_vars


(***************************************************************************)
(* SpecCrash: one writer whose process can die inside save_objects, at any *)
(* statement, and is started again with overwrite=False.                   *)
(***************************************************************************)
\* the batches of the writer that can die: well-shaped candidates only
CrashCandidates == {c \in Candidates : c.kind # "other" /\ c.payload = 1}

CrashObjects ==
    {[given |-> TRUE, objs |-> b] : b \in SeqsUpTo(CrashCandidates, MaxBatch) \ {<<>>}}

\* the process of instance self dies inside save_objects; the files stay as
\* the statements run so far left them, and time passes until the restart
Crash(self) ==
    /\ pc[self] # "idle"
    /\ TimeTime(now) <= MaxTime
    /\ now' = TimeTime(now)
    /\ pc' = [pc EXCEPT ![self] = "idle"]
    /\ frame' = [frame EXCEPT ![self] = NoFrame]
    /\ alive' = [alive EXCEPT ![self] = FALSE]
    /\ obj_set' = [obj_set EXCEPT ![self] = {}]
    /\ last_modified' = [last_modified EXCEPT ![self] = 0]
    /\ max_objects' = [max_objects EXCEPT ![self] = 0]
    /\ ret' = [ret EXCEPT !.err = "crash"]
    /\ UNCHANGED <<disk, saved, n_accepting>>

NextCrash ==
    \/ Construct(Writer, TRUE, NoBatch, MaxObjects)
    \/ Construct(Writer, FALSE, NoBatch, MaxObjects)
    \/ \E mo \in CrashObjects : StartSave(Writer, mo)
    \/ DumpPkl(Writer)
    \/ LoadMetadata(Writer)
    \/ WriteMetadata(Writer)
    \/ AppendLedger(Writer)
    \/ UpdateLedgerSet(Writer)
    \/ StampAndReturn(Writer)
    \/ Crash(Writer)
    \/ Resume

SpecCrash == Init /\ [][NextCrash]_vars


(***************************************************************************)
(* SpecRace: two processes, each with its own CheckPointer on the same     *)
(* identity, whose save_objects calls run statement by statement and       *)
(* interleave.  Instance 1 takes the identity over, then instance 2 joins  *)
(* it, before or after instance 1 has saved.                               *)
(***************************************************************************)
RaceCandidates ==
    {[kind |-> "instance", key |-> <<"a">>, payload |-> 1],
     [kind |-> "dict", key |-> <<"b">>, payload |-> 1]}

RaceObjects ==
    {[given |-> TRUE, objs |-> b] : b \in SeqsUpTo(RaceCandidates, MaxBatch) \ {<<>>}}

\* lines 107-129 of a call that goes on to write, while the other process
\* may be inside a call of its own
BeginSave(self, meta_objects) ==
    LET st == Scan(meta_objects.objs, obj_set[self], max_objects[self])
    IN  /\ ret = NoRet
        /\ alive[self]
        /\ pc[self] = "idle"
        /\ st.err = "none"
        /\ Len(st.objects_to_save) > 0
        /\ TimeTime(now) <= MaxTime
        /\ pc' = [pc EXCEPT ![self] = "dump"]
        /\ frame' = [frame EXCEPT ![self] =
                        [NoFrame EXCEPT !.keys_to_save = st.keys_to_save,
                                        !.objects_to_save = st.objects_to_save,
                                        !.filename = Filename(st.objects_to_save)]]
        /\ UNCHANGED <<disk, memory, now, ret, saved, n_accepting>>

NextRace ==
    \/ ~alive[1] /\ Construct(1, TRUE, NoBatch, MaxObjects)
    \/ alive[1] /\ ~alive[2] /\ Construct(2, FALSE, NoBatch, MaxObjects)
    \/ \E self \in Insts, mo \in RaceObjects : BeginSave(self, mo)
    \/ \E self \in Insts : DumpPkl(self)
    \/ \E self \in Insts : LoadMetadata(self)
    \/ \E self \in Insts : WriteMetadata(self)
    \/ \E self \in Insts : AppendLedger(self)
    \/ \E self \in Insts : UpdateLedgerSet(self)
    \/ \E self \in Insts : StampAndReturn(self)
    \/ Resume

SpecRace == Init /\ [][NextRace]_vars


(***************************************************************************)
(* SpecStale: two instances on the same identity whose calls do not        *)
(* overlap: each save_objects call runs from start to end before the next. *)
(***************************************************************************)
NextStale ==
    \/ ~alive[1] /\ Construct(1, TRUE, NoBatch, MaxObjects)
    \/ alive[1] /\ ~alive[2] /\ Construct(2, FALSE, NoBatch, MaxObjects)
    \/ \E self \in Insts, mo \in RaceObjects : SaveObjects(self, mo)
    \/ \E self \in Insts, k \in {c.key : c \in RaceCandidates} : GetSpecificObject(self, k)
    \/ Resume

SpecStale == Init /\ [][NextStale]_vars

(***************************************************************************)
(* Properties.                                                             *)
(***************************************************************************)
\* the keys the index lists, over all its entries
IndexKeys(md) == UNION {Range(md.doc[i].v) : i \in 1..Len(md.doc)}

\* the last call was a save_objects call that ended without an error
SaveReturned == ret.op = "save" /\ ret.err = "none"

\* C1: after any sequence of successful save_objects calls on one instance
\* over an overwritten store, the keys listed in metadata.json are exactly
\* the keys of the in-memory ledger obj_set.
C1_IndexEqualsLedger ==
    alive[Writer] => IndexKeys(metadata) = obj_set[Writer]

\* a candidate of the configured shape: an instance, or a dict of its fields
WellShaped(c) == c.kind \in {"instance", "dict"}

\* the keys of a batch in call order, each once, known ones left out
RECURSIVE FreshFrom(_, _, _)
FreshFrom(objs, i, known) ==
    IF i > Len(objs) THEN <<>>
    ELSE IF objs[i].key \in known THEN FreshFrom(objs, i + 1, known)
    ELSE <<objs[i].key>> \o FreshFrom(objs, i + 1, known \cup {objs[i].key})

FreshKeys(objs, known) == FreshFrom(objs, 1, known)

\* the step is a save_objects call, seen from its start to its return
SaveCall == ret = NoRet /\ ret'.op = "save"

\* the step leaves the files and the instance as they were
NothingChanges == UNCHANGED <<disk, memory>>

\* C2: a key that a successful save stored is looked up without an error
\* and the object returned is the object that was stored under it.
C2_RoundTrip ==
    (ret.op = "get" /\ ret.key \in DOMAIN saved)
        => (ret.err = "none" /\ ret.obj = saved[ret.key])

\* a batch of well-shaped candidates whose keys were all saved before
AllKnown(r) ==
    /\ r.given
    /\ Len(r.objs) > 0
    /\ \A i \in 1..Len(r.objs) : WellShaped(r.objs[i]) /\ r.objs[i].key \in r.before

\* C3 as written: a save_objects call whose candidates all carry keys that
\* earlier calls accepted raises no error and changes nothing, so each key
\* keeps the payload of its first save.
C3_AllKnownIsNoOp ==
    [][(SaveCall /\ AllKnown(ret')) => (ret'.err = "none" /\ NothingChanges)]_vars

\* C3 amended: the same for a call of at most max_objects candidates.
C3_AllKnownWithinCapIsNoOp ==
    [][(SaveCall /\ AllKnown(ret') /\ Len(ret'.objs) <= max_objects[Writer])
          => (ret'.err = "none" /\ NothingChanges)]_vars

\* a call returned without error whose candidates were all saved before, one
\* of them with another payload than the stored one
C3_Witness ==
    /\ SaveReturned
    /\ AllKnown(ret)
    /\ \E i \in 1..Len(ret.objs) :
          ret.objs[i].payload # saved[ret.objs[i].key].payload

\* C4: a save_objects call with more than max_objects candidates raises
\* ValueError and changes nothing, whether or not the keys are known; a call
\* with exactly max_objects candidates is not rejected for its size.
C4_BatchCap ==
    [][SaveCall =>
          /\ (ret'.given /\ Len(ret'.objs) > max_objects[Writer])
                => (ret'.err = "ValueError" /\ NothingChanges)
          /\ (ret'.given /\ Len(ret'.objs) = max_objects[Writer])
                => ret'.err # "ValueError"]_vars

\* an oversized call of known keys only was rejected
C4_Witness ==
    /\ ret.op = "save"
    /\ ret.err = "ValueError"
    /\ Len(ret.objs) > max_objects[Writer]
    /\ \A i \in 1..Len(ret.objs) : ret.objs[i].key \in ret.before

\* the batch holds a candidate that is neither an instance nor a dict
HasMisshaped(r) ==
    r.given /\ \E i \in 1..Len(r.objs) : ~WellShaped(r.objs[i])

\* C5 as written: a save_objects call holding a candidate of the wrong shape
\* raises TypeError and writes nothing, not even the candidates before it.
C5_ShapeMismatch ==
    [][(SaveCall /\ HasMisshaped(ret'))
          => (ret'.err = "TypeError" /\ NothingChanges)]_vars

\* C5 amended: the same for a call of at most max_objects candidates.
C5_ShapeMismatchWithinCap ==
    [][(SaveCall /\ HasMisshaped(ret') /\ Len(ret'.objs) <= max_objects[Writer])
          => (ret'.err = "TypeError" /\ NothingChanges)]_vars

\* a call was refused for its second candidate after a first one that was
\* well-shaped and new
C5_Witness ==
    /\ ret.op = "save"
    /\ ret.err = "TypeError"
    /\ Len(ret.objs) = 2
    /\ WellShaped(ret.objs[1])
    /\ ret.objs[1].key \notin obj_set[Writer]
    /\ ~WellShaped(ret.objs[2])

\* a batch of well-shaped candidates, some saved before and some not
Mixed(r) ==
    /\ r.given
    /\ \A i \in 1..Len(r.objs) : WellShaped(r.objs[i])
    /\ \E i \in 1..Len(r.objs) : r.objs[i].key \in r.before
    /\ \E i \in 1..Len(r.objs) : r.objs[i].key \notin r.before

\* the step adds the one blob file f and leaves every other blob as it was
OneNewBlob(f) ==
    /\ f \notin DOMAIN blobs
    /\ DOMAIN blobs' = DOMAIN blobs \cup {f}
    /\ \A g \in DOMAIN blobs : blobs'[g] = blobs[g]

\* the step adds one entry at the end of the index and keeps the others
OneNewEntry ==
    /\ metadata'.exists
    /\ Len(metadata'.doc) = Len(JsonLoad(metadata)) + 1
    /\ SubSeq(metadata'.doc, 1, Len(JsonLoad(metadata))) = JsonLoad(metadata)

\* C6: a save_objects call that mixes known and unknown keys and returns
\* without error writes exactly one new blob and one new index entry, which
\* lists exactly the new keys in call order; the ledger afterwards is the
\* ledger before plus the new keys.
C6_MixedBatch ==
    [][(SaveCall /\ ret'.err = "none" /\ Mixed(ret')) =>
          LET fresh == FreshKeys(ret'.objs, ret'.before)
              e == metadata'.doc[Len(metadata'.doc)]
          IN  /\ OneNewEntry
              /\ e.v = fresh
              /\ OneNewBlob(e.k)
              /\ obj_set'[Writer] = obj_set[Writer] \cup Range(fresh)]_vars

\* C7: every save_objects call that accepts a new key creates a blob file
\* that did not exist and adds an index entry, without overwriting a blob or
\* an entry; after n such calls the index has n entries.
C7_WriteOnce ==
    [][(SaveCall /\ ret'.err = "none" /\ FreshKeys(ret'.objs, ret'.before) # <<>>) =>
          /\ OneNewEntry
          /\ OneNewBlob(metadata'.doc[Len(metadata'.doc)].k)
          /\ Len(return_all_objects_info(metadata')) = n_accepting']_vars

\* the step is a get_specific_object call
GetCall == ret = NoRet /\ ret'.op = "get"

\* C8: get_specific_object for a key the index does not list raises KeyError,
\* also when metadata.json does not exist, and changes nothing.
C8_NotFound ==
    [][(GetCall /\ (~metadata.exists \/ ret'.key \notin IndexKeys(metadata)))
          => (ret'.err = "KeyError" /\ NothingChanges)]_vars

\* a lookup failed on an index that exists and lists other keys
C8_Witness ==
    /\ ret.op = "get"
    /\ ret.err = "KeyError"
    /\ metadata.exists
    /\ IndexKeys(metadata) # {}
    /\ ret.key \notin IndexKeys(metadata)

\* the step is a construction with overwrite and without an initial batch
OverwriteCall == ret = NoRet /\ ret'.op = "init" /\ ret'.overwrite /\ ~ret'.given

SaveReturns == ret # ret' /\ ret'.op = "save" /\ ret'.err = "none"

\* a blob and an index entry hold exactly the keys fresh, and the ledger
\* file lists each of them
WritesDone(fresh) ==
    /\ \E f \in DOMAIN blobs :
          /\ DictKeys(blobs[f]) = fresh
          /\ metadata.exists
          /\ \E i \in 1..Len(metadata.doc) :
                metadata.doc[i].k = f /\ metadata.doc[i].v = fresh
    /\ ledger.exists
    /\ Range(fresh) \subseteq Range(Split(ledger.text))

\* C10: a save_objects call that accepts a new key returns with a
\* last_modified later than the one it started with, and the statement that
\* assigns last_modified runs when the blob, the index entry and the ledger
\* line of that call are already on disk.
C10_Watermark ==
    [][/\ (SaveReturns /\ FreshKeys(ret'.objs, ret'.before) # <<>>)
              => last_modified'[Writer] > ret'.was
       /\ (ret'.op = "save" /\ last_modified'[Writer] # last_modified[Writer])
              => (WritesDone(FreshKeys(ret'.objs, ret'.before)) /\ UNCHANGED disk)]_vars

\* a later save accepted a new key and returned with a later watermark
C10_Witness ==
    /\ SaveReturned
    /\ ret.before # {}
    /\ FreshKeys(ret.objs, ret.before) # <<>>
    /\ last_modified[Writer] > ret.was
    /\ WritesDone(FreshKeys(ret.objs, ret.before))

\* the step is a construction with overwrite=False and no initial batch
ReloadCall == ret = NoRet /\ ret'.op = "init" /\ ~ret'.overwrite /\ ~ret'.given

\* C11: constructing with overwrite=False gives an in-memory ledger equal
\* to the set of keys that the earlier saves of the identity accepted, which
\* is also the union of the member lists of the index; without a ledger file
\* it is the empty set.
C11_ReloadRoundTrip ==
    [][ReloadCall =>
          /\ obj_set'[Writer] = ret'.before
          /\ obj_set'[Writer] = IndexKeys(metadata')
          /\ ~ledger.exists => obj_set'[Writer] = {}]_vars

\* the keys written to the ledger file
LedgerKeys(lg) == Range(Split(lg.text)) \ {<<>>}

\* some index entry lists key, and its blob file exists and holds key
Durable(key) ==
    /\ metadata.exists
    /\ \E i \in 1..Len(metadata.doc) :
          /\ key \in Range(metadata.doc[i].v)
          /\ metadata.doc[i].k \in DOMAIN blobs
          /\ DictHas(blobs[metadata.doc[i].k], key)

\* a save_objects call was interrupted
Interrupted == ret.op = "save" /\ ret.err = "crash"

\* C12: a save writes the blob, then the index, then the ledger; when a
\* save_objects call is interrupted, every key in the ledger file is listed
\* in an index entry whose blob file exists and holds that key.
C12_CrashSafeOrder ==
    Interrupted => \A key \in LedgerKeys(ledger) : Durable(key)

\* the index entries whose member list holds key
EntriesWith(md, key) == {i \in 1..Len(md.doc) : key \in Range(md.doc[i].v)}

\* C13: with one writer that saves and comes back with overwrite=False,
\* every key of metadata.json is in the member list of exactly one entry.
C13_KeyInOneEntry ==
    \A key \in IndexKeys(metadata) : Cardinality(EntriesWith(metadata, key)) = 1

\* the step is the statement of instance self that writes metadata.json back
WritesIndexBack(self) == pc[self] = "write" /\ pc'[self] = "append"

\* the blob files that got an index entry after instance self read the index
AddedSince(self) ==
    {f \in Range(DictKeys(JsonLoad(metadata))) :
        f \notin Range(DictKeys(frame[self].metadata)) /\ f # frame[self].filename}

\* C14: when the read-modify-write steps of two instances on metadata.json
\* interleave, the instance that writes back last keeps its own entry and
\* drops every entry added since it read the index, while the blob files of
\* the dropped entries stay.
C14_LostIndexUpdate ==
    [][\A self \in Insts : WritesIndexBack(self) =>
          /\ DictHas(metadata'.doc, frame[self].filename)
          /\ DictGet(metadata'.doc, frame[self].filename)
                = DictKeys(frame[self].objects_to_save)
          /\ \A f \in AddedSince(self) :
                /\ ~DictHas(metadata'.doc, f)
                /\ f \in DOMAIN blobs => f \in DOMAIN blobs']_vars

\* both saves are over: a blob file exists and its keys are in the ledger
\* file, metadata.json has no entry for it and looking its keys up fails
C14_Witness ==
    /\ \A self \in Insts : alive[self] /\ pc[self] = "idle"
    /\ metadata.exists
    /\ \E f \in DOMAIN blobs :
          /\ ~DictHas(metadata.doc, f)
          /\ Range(DictKeys(blobs[f])) # {}
          /\ \A key \in Range(DictKeys(blobs[f])) :
                /\ key \in LedgerKeys(ledger)
                /\ get_specific_object(metadata, blobs, key).err = "KeyError"

\* how many times key stands in the list keys
RECURSIVE Count(_, _)
Count(key, keys) ==
    IF keys = <<>> THEN 0
    ELSE (IF Head(keys) = key THEN 1 ELSE 0) + Count(key, Tail(keys))

\* the step is a save_objects call of instance self that raised nothing
SavesBy(self) ==
    ret = NoRet /\ ret'.op = "save" /\ ret'.inst = self /\ ret'.err = "none"

\* the step wrote key into a blob and an index entry and appended it to the
\* ledger file
WrittenAgain(key) ==
    /\ Count(key, Split(ledger'.text)) > Count(key, Split(ledger.text))
    /\ \E j \in 1..Len(metadata'.doc) :
          /\ key \in Range(metadata'.doc[j].v)
          /\ metadata'.doc[j].k \in DOMAIN blobs'
          /\ DictHas(blobs'[metadata'.doc[j].k], key)
          /\ Range(DictKeys(blobs'[metadata'.doc[j].k])) = Range(ret'.keys_to_save)

\* C15: an instance does not read the ledger file again after construction:
\* when the ledger file holds a key that another instance saved and the
\* in-memory ledger of this instance lacks it, a save_objects call of this
\* instance with that key takes it as new and writes it again to a blob, to
\* the index and to the ledger file.
C15_StaleLedger ==
    [][\A self \in Insts : SavesBy(self) =>
          \A i \in 1..Len(ret'.objs) :
              (/\ ret'.objs[i].key \in LedgerKeys(ledger)
               /\ ret'.objs[i].key \notin obj_set[self])
                  => (/\ ret'.objs[i].key \in Range(ret'.keys_to_save)
                      /\ WrittenAgain(ret'.objs[i].key))]_vars

\* instance 1 saved a key that had been saved before; the ledger file now
\* holds it twice
C15_Witness ==
    /\ SaveReturned
    /\ ret.inst = 1
    /\ \E key \in Range(ret.keys_to_save) :
          /\ key \in ret.before
          /\ Count(key, Split(ledger.text)) >= 2

\* the blob file name holds exactly the keys listed, each with an object of
\* that key
Describes(name, keys) ==
    LET r == return_objects_for(blobs, name)
    IN  /\ r.err = "none"
        /\ Range(DictKeys(r.objects)) = Range(keys)
        /\ Len(r.objects) = Len(keys)
        /\ \A j \in 1..Len(r.objects) : r.objects[j].v.key = r.objects[j].k

\* C16: after the completed save_objects calls of one writer, every entry
\* name -> keys of return_all_objects_info() names a blob file that exists
\* and for which return_objects_for returns a mapping with exactly these
\* keys, each object having its key; return_objects_for of a name without a
\* blob file raises FileNotFoundError.
C16_EntriesDescribeBlobs ==
    alive[Writer] =>
        /\ \A i \in 1..Len(return_all_objects_info(metadata)) :
              Describes(return_all_objects_info(metadata)[i].k,
                        return_all_objects_info(metadata)[i].v)
        /\ (ret.op = "objects_for" /\ ret.key \notin DOMAIN blobs)
              => ret.err = "FileNotFoundError"

\* return_objects_for returned the objects of one of two indexed blobs
C16_Witness ==
    /\ ret.op = "objects_for"
    /\ ret.err = "none"
    /\ Len(return_all_objects_info(metadata)) >= 2
    /\ \E i \in 1..Len(metadata.doc) : metadata.doc[i].k = ret.key

\* the positions of the candidates of the call with key
Occurrences(objs, key) == {i \in 1..Len(objs) : objs[i].key = key}

\* the call holds the new key at two or more candidates
Repeats(r, key) ==
    /\ key \notin r.before
    /\ Cardinality(Occurrences(r.objs, key)) >= 2

\* the largest number of a non-empty set of numbers
Last(S) == CHOOSE i \in S : \A j \in S : j <= i

\* C17: when one save_objects call holds the same new key at two or more
\* candidates, the blob and the index entry of the call hold the key once,
\* the object stored is the last of these candidates, and the ledger file
\* gets the key once for each of them.
C17_DuplicateInCall ==
    [][\A key \in Keys :
          (SaveCall /\ ret'.err = "none" /\ Repeats(ret', key)) =>
              LET last == ret'.objs[Last(Occurrences(ret'.objs, key))]
              IN  /\ \E j \in 1..Len(metadata'.doc) :
                        /\ Count(key, metadata'.doc[j].v) = 1
                        /\ metadata'.doc[j].k \in DOMAIN blobs'
                        /\ Count(key, DictKeys(blobs'[metadata'.doc[j].k])) = 1
                        /\ DictGet(blobs'[metadata'.doc[j].k], key).payload = last.payload
                  /\ \A j \in 1..Len(metadata'.doc) : Count(key, metadata'.doc[j].v) <= 1
                  /\ Count(key, Split(ledger'.text))
                        = Count(key, Split(ledger.text))
                            + Cardinality(Occurrences(ret'.objs, key))]_vars

\* a call saved "a" from two candidates of different payloads, the last
\* being stored
C17_Witness ==
    /\ SaveReturned
    /\ Len(ret.objs) = 2
    /\ ret.objs[1].key = ret.objs[2].key
    /\ ret.objs[1].payload # ret.objs[2].payload
    /\ ret.objs[1].key \notin ret.before
    /\ get_specific_object(metadata, blobs, ret.objs[1].key).obj.payload
          = ret.objs[2].payload
    /\ Count(ret.objs[1].key, Split(ledger.text)) = 2

\* the step is a construction with overwrite and an initial batch that is
\* oversized or holds a candidate of the wrong shape
FailingOverwrite ==
    /\ ret = NoRet
    /\ ret'.op = "init"
    /\ ret'.overwrite
    /\ ret'.given
    /\ Len(ret'.objs) > MaxObjects \/ HasMisshaped(ret')

\* C18: a construction with overwrite=True whose initial batch is oversized
\* or mis-shaped raises its error after the blobs, metadata.json and the
\* ledger file of the identity are deleted: no instance is returned and the
\* earlier checkpoint state is gone.
C18_FailedConstructionWipes ==
    [][FailingOverwrite =>
          /\ ret'.err \in {"ValueError", "TypeError"}
          /\ ~alive'[Writer]
          /\ DOMAIN blobs' = {}
          /\ ~metadata'.exists
          /\ ~ledger'.exists]_vars

\* a construction failed over a store that held saved keys, and the files
\* are gone
C18_Witness ==
    /\ ret.op = "init"
    /\ ret.overwrite
    /\ ret.err \in {"ValueError", "TypeError"}
    /\ ret.before # {}
    /\ DOMAIN blobs = {}
    /\ ~metadata.exists
    /\ ~ledger.exists

====
